---- MODULE Spec2Model ----
(***************************************************************************)
(* The stdio JSON-RPC server of @deshell/mcp: the line framer, dispatch,   *)
(* callTool and the HTTP helper get, in both service variants (the         *)
(* six-tool src/index.js and the two-tool src/unnamed/part_000).           *)
(*                                                                         *)
(* JavaScript values are records tagged with their type; a string is the   *)
(* sequence of its characters where the code looks at characters           *)
(* (encodeURIComponent) and a TLA+ string where it only compares or        *)
(* concatenates.  stdin is a sequence of characters in which a JSON text   *)
(* is one character (a token carrying the value JSON.parse returns).       *)
(***************************************************************************)
EXTENDS Integers, Sequences, FiniteSets, TLC

VARIABLES
    variant,    \* "six" (src/index.js) or "two" (src/unnamed/part_000)
    remote,     \* the statuses the remote server answers requests with
    API_KEY,    \* process.env.DESHELL_API_KEY || ''
    stdin,      \* the text the client has written and the process has not read yet
    read,       \* history: the text the process has read
    buf,        \* startMCPServer's buf
    out,        \* the lines written to stdout, in order
    log,        \* history: the values handed to dispatch, in order
    bad,        \* history: how many frames failed JSON.parse
    parsed,     \* history: the lines handed to JSON.parse, in order
    calls,      \* the tools/call invocations awaiting HTTP I/O, by frame number
    reqs,       \* history: the HTTP GETs issued, in order (of a chain, the first MaxHops)
    by,         \* history: for a call that settled, whether the last request of its
                \* chain settled it ("last") or one a redirect had answered ("earlier"),
                \* how ("end", "error", "location"), and the status of the last
                \* response it had by then (0 when none)
    status      \* "running", "exited" (process.exit(0)) or "crashed"

vars == <<variant, remote, API_KEY, stdin, read, buf, out, log, bad, parsed, calls, reqs, by, status>>

----
\* Bounds of the model.

\* longest string argument (url, query), in characters
MaxStr == 2
\* lines of the input text
MaxLines == 2
\* longest chunk of one 'data' event, in characters
MaxChunk == 3
\* requests of one get chain that the model counts and records in reqs; the
\* code has no cap, and the chain goes on past them uncounted
MaxHops == 2
\* body chunks of one HTTP response
MaxBody == 2

----
\* JavaScript values.

Undef == [t |-> "undefined"]
JNull == [t |-> "null"]
JStr(s) == [t |-> "string", s |-> s]
JNum(n) == [t |-> "number", n |-> n]

\* a high surrogate with no low surrogate after it: one UTF-16 code unit
LoneSurrogate == "\\uD800"

\* x != null
NotNullish(v) == v.t \notin {"undefined", "null"}

\* !x is false
Truthy(v) ==
    CASE v.t = "string" -> v.s # <<>>
      [] v.t = "number" -> v.n # 0
      [] OTHER -> FALSE

DigitStr(n) ==
    CASE n = 0 -> "0" [] n = 1 -> "1" [] n = 2 -> "2" [] n = 3 -> "3"
      [] n = 4 -> "4" [] n = 5 -> "5" [] n = 6 -> "6" [] n = 7 -> "7"
      [] n = 8 -> "8" [] n = 9 -> "9"

\* the characters of String(v)
CharsOf(v) ==
    CASE v.t = "string" -> v.s
      [] v.t = "number" -> <<DigitStr(v.n)>>
      [] v.t = "null" -> <<"null">>
      [] OTHER -> <<"undefined">>

RECURSIVE Join(_)
Join(cs) == IF cs = <<>> THEN "" ELSE Head(cs) \o Join(Tail(cs))

\* `${v}`
StringOf(v) == Join(CharsOf(v))

\* encodeURIComponent's escape of one character: A-Z a-z 0-9 - _ . ! ~ * ' ( )
\* stay, every other character becomes the %XX of its UTF-8 bytes
EscapeChar(c) ==
    CASE c = " " -> "%20"
      [] c = "%" -> "%25"
      [] c = "/" -> "%2F"
      [] OTHER -> c

\* encodeURIComponent(v): throws URIError on a lone surrogate
encodeURIComponent(v) ==
    LET cs == CharsOf(v)
    IN IF \E i \in 1..Len(cs) : cs[i] = LoneSurrogate
       THEN [ok |-> FALSE, text |-> "URI malformed"]
       ELSE [ok |-> TRUE, text |-> Join([i \in 1..Len(cs) |-> EscapeChar(cs[i])])]

----
\* Configuration and the tool registry.

PROXY_BASE == "https://proxy.deshell.ai"
VERSION == "package.json version"

Tool(name, field) == [name |-> name, type |-> "object", property |-> field, required |-> <<field>>]

\* (mutant) the two-tool variant listing the six tools
TOOLS_six ==
    << Tool("deshell_scrape", "url"), Tool("deshell_search", "query"),
       Tool("deshell_screenshot", "url"), Tool("deshell_render", "url"),
       Tool("deshell_raw", "url"), Tool("deshell_nocache", "url") >>

TOOLS ==
    IF variant = "six"
    THEN << Tool("deshell_scrape", "url"), Tool("deshell_search", "query"),
            Tool("deshell_screenshot", "url"), Tool("deshell_render", "url"),
            Tool("deshell_raw", "url"), Tool("deshell_nocache", "url") >>
    ELSE << Tool("deshell_scrape", "url"), Tool("deshell_search", "query") >>

----
\* callTool: the outcome of its synchronous part, either a throw or the get it
\* returns.

Throw(message) == [t |-> "throw", message |-> message, url |-> "", headers |-> {}]
Get(url, headers) == [t |-> "get", message |-> "", url |-> url, headers |-> headers]

\* (mutant) a url tool that percent-encodes its argument
UrlTool_encode(path, args, headers) ==
    IF ~Truthy(args.url) THEN Throw("url is required")
    ELSE Get(PROXY_BASE \o path \o encodeURIComponent(args.url).text, headers)

UrlTool(path, args, headers) ==
    IF ~Truthy(args.url) THEN Throw("url is required")
    ELSE Get(PROXY_BASE \o path \o StringOf(args.url), headers)

SearchTool(args, headers) ==
    IF ~Truthy(args.query) THEN Throw("query is required")
    ELSE LET q == encodeURIComponent(args.query)
         IN IF ~q.ok THEN Throw(q.text)
            ELSE Get(PROXY_BASE \o "/search?q=" \o q.text,
                     headers \cup {<<"Accept", "text/markdown">>})

\* (mutant) the six-tool registry served by the two-tool chain of comparisons
callTool_short(name, args) ==
    IF API_KEY = "" THEN Throw("DESHELL_API_KEY environment variable is required")
    ELSE LET headers == {<<"X-DeShell-Key", API_KEY>>}
         IN CASE name = "deshell_scrape" -> UrlTool("/", args, headers)
              [] name = "deshell_search" -> SearchTool(args, headers)
              [] OTHER -> Throw("Unknown tool: " \o name)

callTool(name, args) ==
    IF API_KEY = "" THEN Throw("DESHELL_API_KEY environment variable is required")
    ELSE LET headers == {<<"X-DeShell-Key", API_KEY>>}
         IN CASE name = "deshell_scrape" -> UrlTool("/", args, headers)
              [] name = "deshell_search" -> SearchTool(args, headers)
              [] variant = "six" /\ name = "deshell_screenshot" -> UrlTool("/screenshot/", args, headers)
              [] variant = "six" /\ name = "deshell_render" -> UrlTool("/render/", args, headers)
              [] variant = "six" /\ name = "deshell_raw" -> UrlTool("/raw/", args, headers)
              [] variant = "six" /\ name = "deshell_nocache" -> UrlTool("/nocache/", args, headers)
              [] OTHER -> Throw("Unknown tool: " \o name)

----
\* JSON values on stdin and the messages they decode to.

\* params of a message: absent, null, or an object with name and arguments
\* (a property of arguments that is absent reads as undefined, and so does a
\* name that is absent, which a template literal writes "undefined")
NoArguments == Undef
NullArguments == JNull
Arguments(url, query) == [t |-> "object", url |-> url, query |-> query]
EmptyObject == Arguments(Undef, Undef)
NoParams == Undef
NullParams == JNull
Params(name, arguments) == [t |-> "object", name |-> name, arguments |-> arguments]

\* the value of one JSON text: an object, null, or the number 5
Message(id, method, params) == [t |-> "object", id |-> id, method |-> method, params |-> params]
JsonNull == JNull
JsonNumber == JNum(5)

\* const { id, method, params } = msg, for a msg that is not null: a property
\* that is absent, and every property of a number, reads as undefined
destructure(msg) ==
    IF msg.t = "object" THEN msg
    ELSE [t |-> msg.t, id |-> Undef, method |-> "undefined", params |-> Undef]

\* characters of stdin that are not JSON texts
NL == [t |-> "newline"]
SP == [t |-> "space"]
Junk == [t |-> "junk"]

IsJson(c) == c.t \in {"object", "null", "number"}

----
\* The framer's string operations.

\* buf.split('\n'): the segments between newlines, the last one included
RECURSIVE SplitLines(_, _)
SplitLines(text, cur) ==
    IF text = <<>> THEN <<cur>>
    ELSE IF Head(text) = NL THEN <<cur>> \o SplitLines(Tail(text), <<>>)
    ELSE SplitLines(Tail(text), Append(cur, Head(text)))

split(text) == SplitLines(text, <<>>)

RECURSIVE TrimLeft(_)
TrimLeft(line) == IF line # <<>> /\ Head(line) = SP THEN TrimLeft(Tail(line)) ELSE line

RECURSIVE TrimRight(_)
TrimRight(line) ==
    IF line # <<>> /\ line[Len(line)] = SP THEN TrimRight(SubSeq(line, 1, Len(line) - 1)) ELSE line

\* line.trim()
trim(line) == TrimRight(TrimLeft(line))

\* JSON.parse(line): one JSON text with white space around it, or a SyntaxError
JSONparse(line) ==
    LET t == trim(line)
    IN IF Len(t) = 1 /\ IsJson(t[1]) THEN [ok |-> TRUE, value |-> t[1]]
       ELSE [ok |-> FALSE, value |-> JsonNull]

----
\* stdout: write, ok and fail.  JSON.stringify leaves out a key whose value is
\* undefined, so a line has an id key exactly when its id is not Undef; src is
\* history, the number of the frame the line answers (0 for a parse error).

Missing == [kind |-> "absent"]
Error(code, message) == [kind |-> "error", code |-> code, message |-> message]

write(st, src, obj) ==
    [st EXCEPT !.out = Append(@, [src |-> src, id |-> obj.id, result |-> obj.result, error |-> obj.error])]

ok(st, src, id, result) == write(st, src, [id |-> id, result |-> result, error |-> Missing])

fail(st, src, id, code, message) ==
    write(st, src, [id |-> id, result |-> Missing, error |-> Error(code, message)])

\* (mutant) an initialize result that speaks of another protocol revision
InitializeResult_draft ==
    [kind |-> "initialize", protocolVersion |-> "2025-03-26", capabilities |-> {"tools"},
     serverInfo |-> [name |-> "@deshell/mcp", version |-> VERSION]]

InitializeResult ==
    [kind |-> "initialize", protocolVersion |-> "2024-11-05", capabilities |-> {"tools"},
     serverInfo |-> [name |-> "@deshell/mcp", version |-> VERSION]]
PingResult == [kind |-> "empty"]
\* (mutant) a registry that is listed only until a tool was called
ListResult_once == [kind |-> "tools", tools |-> IF reqs = <<>> THEN TOOLS ELSE <<>>]

ListResult == [kind |-> "tools", tools |-> TOOLS]
CallResult(text) == [kind |-> "content", content |-> <<[type |-> "text", text |-> text]>>]

----
\* get: the synchronous part of the Promise executor.  new URL(url) throws
\* "Invalid URL" for a url that is not absolute; otherwise the request is sent.

AbsentLocation == "undefined"
RelativeLocation == "/moved"
AbsoluteLocation == "https://elsewhere.example/moved"
OtherLocation == "https://elsewhere.example/again"

URLparses(url) == url \notin {AbsentLocation, RelativeLocation}

Call(id, url, headers) ==
    [id |-> id, url |-> url, headers |-> headers, hops |-> 1, phase |-> "sent",
     code |-> 0, chunks |-> <<>>]

Request(src, url, headers) == [src |-> src, url |-> url, headers |-> headers]

----
\* dispatch(msg), up to its first await.  st is the state of the process while
\* one 'data' event is handled: micro holds the rejected callTool promises whose
\* catch runs once the handler has returned, unhandled says that a dispatch
\* promise was rejected with nobody to catch it.

TypeErrorMessage(params) ==
    "Cannot read properties of " \o params.t \o " (reading 'name')"

\* (mutant) params.arguments passed on without the || {}
toolsCall_noDefault(st, src, id, params) ==
    IF params.t \in {"undefined", "null"}
    THEN IF NotNullish(id) THEN fail(st, src, id, -32603, TypeErrorMessage(params)) ELSE st
    ELSE IF params.arguments.t # "object"
    THEN [st EXCEPT !.micro = Append(@, [src |-> src, id |-> id,
                        message |-> "Cannot read properties of " \o params.arguments.t])]
    ELSE LET r == callTool(params.name, params.arguments)
         IN IF r.t = "throw"
            THEN [st EXCEPT !.micro = Append(@, [src |-> src, id |-> id, message |-> r.message])]
            ELSE [st EXCEPT !.calls = (src :> Call(id, r.url, r.headers)) @@ @,
                            !.reqs = Append(@, Request(src, r.url, r.headers))]

toolsCall(st, src, id, params) ==
    IF params.t \in {"undefined", "null"}
    THEN \* params.name throws inside the try, before callTool is called
         IF NotNullish(id) THEN fail(st, src, id, -32603, TypeErrorMessage(params)) ELSE st
    ELSE LET args == IF params.arguments.t = "object" THEN params.arguments ELSE EmptyObject
             r == callTool(params.name, args)
         IN IF r.t = "throw"
            THEN [st EXCEPT !.micro = Append(@, [src |-> src, id |-> id, message |-> r.message])]
            ELSE IF ~URLparses(r.url)
            THEN [st EXCEPT !.micro = Append(@, [src |-> src, id |-> id, message |-> "Invalid URL"])]
            ELSE [st EXCEPT !.calls = (src :> Call(id, r.url, r.headers)) @@ @,
                            !.reqs = Append(@, Request(src, r.url, r.headers))]

\* (mutant) a default that reports the unknown method as an internal error
dispatch_internal(st0, msg) ==
    LET src == Len(st0.log) + 1
        st == [st0 EXCEPT !.log = Append(@, msg)]
    IN IF msg.t = "null"
       THEN [st EXCEPT !.unhandled = TRUE]
       ELSE LET id == destructure(msg).id
                method == destructure(msg).method
                params == destructure(msg).params
            IN CASE method = "initialize" -> ok(st, src, id, InitializeResult)
                 [] method \in {"initialized", "notifications/initialized"} -> st
                 [] method = "ping" -> ok(st, src, id, PingResult)
                 [] method = "tools/list" -> ok(st, src, id, ListResult)
                 [] method = "tools/call" -> toolsCall(st, src, id, params)
                 [] OTHER -> IF NotNullish(id)
                             THEN fail(st, src, id, -32603, "Method not found: " \o method)
                             ELSE st

\* (mutant) an initialized that falls through to ping
dispatch_fallthrough(st0, msg) ==
    LET src == Len(st0.log) + 1
        st == [st0 EXCEPT !.log = Append(@, msg)]
    IN IF msg.t = "null"
       THEN [st EXCEPT !.unhandled = TRUE]
       ELSE LET id == destructure(msg).id
                method == destructure(msg).method
                params == destructure(msg).params
            IN CASE method = "initialize" -> ok(st, src, id, InitializeResult)
                 [] method \in {"initialized", "notifications/initialized", "ping"} ->
                        ok(st, src, id, PingResult)
                 [] method = "tools/list" -> ok(st, src, id, ListResult)
                 [] method = "tools/call" -> toolsCall(st, src, id, params)
                 [] OTHER -> IF NotNullish(id)
                             THEN fail(st, src, id, -32601, "Method not found: " \o method)
                             ELSE st

dispatch(st0, msg) ==
    LET src == Len(st0.log) + 1
        st == [st0 EXCEPT !.log = Append(@, msg)]
    IN IF msg.t = "null"
       THEN \* const { id, method, params } = null throws outside the try
            [st EXCEPT !.unhandled = TRUE]
       ELSE LET id == destructure(msg).id
                method == destructure(msg).method
                params == destructure(msg).params
            IN CASE method = "initialize" -> ok(st, src, id, InitializeResult)
                 [] method \in {"initialized", "notifications/initialized"} -> st
                 [] method = "ping" -> ok(st, src, id, PingResult)
                 [] method = "tools/list" -> ok(st, src, id, ListResult)
                 [] method = "tools/call" -> toolsCall(st, src, id, params)
                 [] OTHER -> IF NotNullish(id)
                             THEN fail(st, src, id, -32601, "Method not found: " \o method)
                             ELSE st

\* (mutant) a catch that answers nothing
catch_silent(st, src, id, message) == st

\* the catch of dispatch, for a rejection that reaches it after an await
catch(st, src, id, message) ==
    IF NotNullish(id) THEN fail(st, src, id, -32603, message) ELSE st

\* (mutant) a loop whose catch swallows the parse failure
frame_swallow(st, line) ==
    IF trim(line) = <<>> THEN st
    ELSE LET p == JSONparse(line)
             s1 == [st EXCEPT !.parsed = Append(@, line)]
         IN IF p.ok THEN dispatch(s1, p.value) ELSE [s1 EXCEPT !.bad = @ + 1]

\* one frame of the 'data' handler's loop
frame(st, line) ==
    IF trim(line) = <<>> THEN st
    ELSE LET p == JSONparse(line)
             s1 == [st EXCEPT !.parsed = Append(@, line)]
         IN IF p.ok THEN dispatch(s1, p.value)
            ELSE fail([s1 EXCEPT !.bad = @ + 1], 0, JNull, -32700, "Parse error")

\* (mutant) a loop that stops at the first call awaiting its HTTP response
RECURSIVE frames_wait(_, _)
frames_wait(st, lines) ==
    IF lines = <<>> \/ st.calls # <<>> THEN st
    ELSE frames_wait(frame(st, Head(lines)), Tail(lines))

RECURSIVE frames(_, _)
frames(st, lines) ==
    IF lines = <<>> THEN st ELSE frames(frame(st, Head(lines)), Tail(lines))

\* the microtasks queued by the handler, run after it returns
RECURSIVE drain(_)
drain(st) ==
    IF st.micro = <<>> THEN st
    ELSE LET m == Head(st.micro)
         IN drain(catch([st EXCEPT !.micro = Tail(@)], m.src, m.id, m.message))

----
\* The inputs of the model.

Ids == {Undef, JNull, JNum(1)}
PlainMethods == {"initialize", "initialized", "notifications/initialized", "ping", "tools/list", "notamethod"}

Chars == {"a", " ", "%", "/", LoneSurrogate}
Strings == UNION {[1..n -> Chars] : n \in 0..MaxStr}
Values == {Undef, JNull, JNum(0), JNum(7)} \cup {JStr(s) : s \in Strings}

ToolNames == {"deshell_scrape", "deshell_search", "deshell_screenshot", "deshell_render",
              "deshell_raw", "deshell_nocache", "deshell_bogus", "undefined"}

\* arguments with at most one of url and query, and one with both
ArgumentsSet ==
    {NoArguments, NullArguments, Arguments(JStr(<<"a">>), JStr(<<"a">>))}
        \cup {Arguments(v, Undef) : v \in Values} \cup {Arguments(Undef, v) : v \in Values}

ToolParams == {NoParams, NullParams} \cup {Params(n, a) : n \in ToolNames, a \in ArgumentsSet}

\* the tools/call params of the server's input texts
ServerParams ==
    {NoParams, Params("deshell_scrape", Arguments(JStr(<<"a">>), Undef)), Params("deshell_scrape", NoArguments)}

Messages ==
    {Message(id, m, NoParams) : id \in Ids, m \in PlainMethods}
        \cup {Message(id, "tools/call", p) : id \in Ids, p \in ServerParams}

Lines == {<<>>, <<SP>>, <<Junk>>, <<JsonNull>>, <<JsonNumber>>} \cup {<<m>> : m \in Messages}

\* an unterminated last line
Tails == {<<>>, <<Message(JNum(1), "ping", NoParams)>>}

RECURSIVE Text(_)
Text(ls) == IF ls = <<>> THEN <<>> ELSE Head(ls) \o <<NL>> \o Text(Tail(ls))

InputTexts == {Text(ls) \o tail : ls \in [1..MaxLines -> Lines], tail \in Tails}

ToolTexts == {<<Message(id, "tools/call", p), NL>> : id \in Ids, p \in ToolParams}

\* lines of one to three characters, blank, malformed and well-formed, for the
\* texts the framer is fed in every cut
FramerLines ==
    {<<>>, <<SP>>, <<Junk, Junk>>, <<JsonNumber>>,
     <<Message(JNum(1), "ping", NoParams)>>,
     <<SP, Message(JNum(1), "ping", NoParams), SP>>,
     <<Message(JNum(1), "tools/call", Params("deshell_scrape", Arguments(JStr(<<"a">>), Undef)))>>}

FramerTexts == {Text(ls) \o tail : ls \in [1..MaxLines -> FramerLines], tail \in Tails}

\* texts of scrape and ping requests, for the behaviours that never end
LiveLines ==
    {<<Message(JNum(1), "ping", NoParams)>>,
     <<Message(JNum(1), "tools/call", Params("deshell_scrape", Arguments(JStr(<<"a">>), Undef)))>>}

LiveTexts == {Text(ls) : ls \in [1..MaxLines -> LiveLines]}

StatusCodes == {200, 404, 500, 307, 301, 302}
\* a server that answers with a page or sends the client elsewhere
Redirecting == {200, 301, 302}
Locations == {AbsentLocation, RelativeLocation, AbsoluteLocation, OtherLocation}
BodyChunks == {"# Mocked", " scrape"}
TransportErrors == {"connect ECONNREFUSED", "Request timed out"}

----
\* The process.

Start(texts) ==
    /\ variant \in {"six", "two"}
    /\ API_KEY \in {"", "dk_test"}
    /\ stdin \in texts
    /\ read = <<>>
    /\ buf = <<>>
    /\ out = <<>>
    /\ log = <<>>
    /\ bad = 0
    /\ parsed = <<>>
    /\ calls = <<>>
    /\ reqs = <<>>
    /\ by = <<>>
    /\ status = "running"

Init == Start(InputTexts) /\ remote = Redirecting

InitTool == Start(ToolTexts) /\ remote = StatusCodes

InitFramer == Start(FramerTexts) /\ remote = Redirecting

InitLive == Start(LiveTexts) /\ remote = Redirecting

State == [out |-> out, log |-> log, bad |-> bad, parsed |-> parsed, calls |-> calls, reqs |-> reqs,
          micro |-> <<>>, unhandled |-> FALSE]

Commit(st) ==
    /\ out' = st.out
    /\ log' = st.log
    /\ bad' = st.bad
    /\ parsed' = st.parsed
    /\ calls' = st.calls
    /\ reqs' = st.reqs

Remove(c) == [k \in DOMAIN calls \ {c} |-> calls[k]]

\* (mutant) a handler that forgets what the chunk before left in buf
Data_noBuf ==
    /\ status = "running"
    /\ \E n \in 1..MaxChunk, mode \in {"throw", "warn"} :
        /\ n <= Len(stdin)
        /\ LET chunk == SubSeq(stdin, 1, n)
               lines == split(chunk)
               st == drain(frames(State, SubSeq(lines, 1, Len(lines) - 1)))
           IN /\ stdin' = SubSeq(stdin, n + 1, Len(stdin))
              /\ read' = read \o chunk
              /\ buf' = lines[Len(lines)]
              /\ Commit(st)
              /\ status' = IF st.unhandled /\ mode = "throw" THEN "crashed" ELSE "running"
    /\ UNCHANGED <<variant, remote, API_KEY, by>>

\* stdin 'data': the handler, then the microtasks it queued, then the
\* rejections nobody handled, which end the process unless node only warns
Data ==
    /\ status = "running"
    /\ \E n \in 1..MaxChunk, mode \in {"throw", "warn"} :
        /\ n <= Len(stdin)
        /\ LET chunk == SubSeq(stdin, 1, n)
               lines == split(buf \o chunk)
               st == drain(frames(State, SubSeq(lines, 1, Len(lines) - 1)))
           IN /\ stdin' = SubSeq(stdin, n + 1, Len(stdin))
              /\ read' = read \o chunk
              /\ buf' = lines[Len(lines)]
              /\ Commit(st)
              /\ status' = IF st.unhandled /\ mode = "throw" THEN "crashed" ELSE "running"
    /\ UNCHANGED <<variant, remote, API_KEY, by>>

\* (mutant) an exit that waits for the calls in flight
End_wait ==
    /\ status = "running"
    /\ stdin = <<>>
    /\ calls = <<>>
    /\ status' = "exited"
    /\ UNCHANGED <<variant, remote, API_KEY, stdin, read, buf, out, log, bad, parsed, calls, reqs, by>>

\* stdin 'end': process.exit(0)
End ==
    /\ status = "running"
    /\ stdin = <<>>
    /\ status' = "exited"
    /\ UNCHANGED <<variant, remote, API_KEY, stdin, read, buf, out, log, bad, parsed, calls, reqs, by>>

\* what by keeps of call c when it settles
Settled(c, from, how) ==
    [from |-> from, how |-> how, code |-> calls[c].code]

\* (mutant) a response callback that rejects on a 4xx or 5xx status
ResponseOf_checked(c, code, location) ==
    /\ calls[c].phase = "sent"
    /\ IF code \in {301, 302}
       THEN IF URLparses(location)
            THEN /\ calls' = [calls EXCEPT ![c].hops = IF @ < MaxHops THEN @ + 1 ELSE @,
                                                ![c].url = location]
                 /\ reqs' = IF calls[c].hops < MaxHops
                            THEN Append(reqs, Request(c, location, calls[c].headers))
                            ELSE reqs
                 /\ UNCHANGED <<out, by>>
            ELSE /\ out' = catch(State, c, calls[c].id, "Invalid URL").out
                 /\ calls' = Remove(c)
                 /\ by' = (c :> [Settled(c, "last", "location") EXCEPT !.code = code]) @@ by
                 /\ UNCHANGED reqs
       ELSE IF code >= 400
            THEN /\ out' = catch(State, c, calls[c].id, "HTTP error").out
                 /\ calls' = Remove(c)
                 /\ by' = (c :> [Settled(c, "last", "status") EXCEPT !.code = code]) @@ by
                 /\ UNCHANGED reqs
            ELSE /\ calls' = [calls EXCEPT ![c].phase = "body", ![c].code = code]
                 /\ UNCHANGED <<out, reqs, by>>
    /\ UNCHANGED <<variant, remote, API_KEY, stdin, read, buf, log, bad, parsed, status>>

\* the response callback of mod.get: a 301 or 302 starts get(location) and
\* hands it resolve and reject, any other status starts collecting the body
ResponseOf(c, code, location) ==
    /\ calls[c].phase = "sent"
    /\ IF code \in {301, 302}
       THEN IF URLparses(location)
            THEN /\ calls' = [calls EXCEPT ![c].hops = IF @ < MaxHops THEN @ + 1 ELSE @,
                                                ![c].url = location]
                 /\ reqs' = IF calls[c].hops < MaxHops
                            THEN Append(reqs, Request(c, location, calls[c].headers))
                            ELSE reqs
                 /\ UNCHANGED <<out, by>>
            ELSE /\ out' = catch(State, c, calls[c].id, "Invalid URL").out
                 /\ calls' = Remove(c)
                 /\ by' = (c :> [Settled(c, "last", "location") EXCEPT !.code = code]) @@ by
                 /\ UNCHANGED reqs
       ELSE /\ calls' = [calls EXCEPT ![c].phase = "body", ![c].code = code]
            /\ UNCHANGED <<out, reqs, by>>
    /\ UNCHANGED <<variant, remote, API_KEY, stdin, read, buf, log, bad, parsed, status>>

Response ==
    /\ status = "running"
    /\ \E c \in DOMAIN calls, code \in remote, location \in Locations :
        ResponseOf(c, code, location)

\* res 'data'
BodyDataOf(c, chunk) ==
    /\ calls[c].phase = "body"
    /\ Len(calls[c].chunks) < MaxBody
    /\ calls' = [calls EXCEPT ![c].chunks = Append(@, chunk)]
    /\ UNCHANGED <<variant, remote, API_KEY, stdin, read, buf, out, log, bad, parsed, reqs, by, status>>

BodyData ==
    /\ status = "running"
    /\ \E c \in DOMAIN calls, chunk \in BodyChunks : BodyDataOf(c, chunk)

\* (mutant) a body that is the last chunk received
BodyEndOf_lastChunk(c) ==
    /\ calls[c].phase = "body"
    /\ out' = ok(State, c, calls[c].id,
                 CallResult(IF calls[c].chunks = <<>> THEN ""
                            ELSE calls[c].chunks[Len(calls[c].chunks)])).out
    /\ calls' = Remove(c)
    /\ by' = (c :> Settled(c, "last", "end")) @@ by
    /\ UNCHANGED <<variant, remote, API_KEY, stdin, read, buf, log, bad, parsed, reqs, status>>

\* res 'end': resolve, and dispatch goes on after its await
BodyEndOf(c) ==
    /\ calls[c].phase = "body"
    /\ out' = ok(State, c, calls[c].id, CallResult(Join(calls[c].chunks))).out
    /\ calls' = Remove(c)
    /\ by' = (c :> Settled(c, "last", "end")) @@ by
    /\ UNCHANGED <<variant, remote, API_KEY, stdin, read, buf, log, bad, parsed, reqs, status>>

BodyEnd ==
    /\ status = "running"
    /\ \E c \in DOMAIN calls : BodyEndOf(c)

\* (mutant) a failure after the body has begun that resolves with what came
RequestErrorOf_partial(c, e) ==
    /\ out' = IF calls[c].chunks # <<>>
              THEN ok(State, c, calls[c].id, CallResult(Join(calls[c].chunks))).out
              ELSE catch(State, c, calls[c].id, e).out
    /\ calls' = Remove(c)
    /\ \E from \in (IF calls[c].phase # "lost" THEN {"last"} ELSE {})
                       \cup (IF calls[c].hops > 1 THEN {"earlier"} ELSE {}) :
           by' = (c :> Settled(c, from, "error")) @@ by
    /\ UNCHANGED <<variant, remote, API_KEY, stdin, read, buf, log, bad, parsed, reqs, status>>

\* req 'error' (a transport failure, or the destroy of the 30 s timeout):
\* reject, and dispatch goes on in its catch.  Every request of the chain has
\* this handler and this timer, and keeps them after a redirect answered it:
\* its response is never read, so its socket stays open and idle unless the
\* server closes it.  A request whose connection closed in mid-body has
\* neither left
RequestErrorOf(c, e) ==
    /\ out' = catch(State, c, calls[c].id, e).out
    /\ calls' = Remove(c)
    /\ \E from \in (IF calls[c].phase # "lost" THEN {"last"} ELSE {})
                       \cup (IF calls[c].hops > 1 THEN {"earlier"} ELSE {}) :
           by' = (c :> Settled(c, from, "error")) @@ by
    /\ UNCHANGED <<variant, remote, API_KEY, stdin, read, buf, log, bad, parsed, reqs, status>>

RequestError ==
    /\ status = "running"
    /\ \E c \in DOMAIN calls, e \in TransportErrors : RequestErrorOf(c, e)

\* (mutant) an aborted response that resolves with the chunks it had brought
LostOf_partial(c) ==
    /\ calls[c].phase = "body"
    /\ out' = ok(State, c, calls[c].id, CallResult(Join(calls[c].chunks))).out
    /\ calls' = Remove(c)
    /\ by' = (c :> Settled(c, "last", "aborted")) @@ by
    /\ UNCHANGED <<variant, remote, API_KEY, stdin, read, buf, log, bad, parsed, reqs, status>>

\* the connection closes in mid-body with no socket error: the response is
\* aborted, which raises neither res 'end' nor req 'error', the only events
\* get listens to; the socket is gone and its timer with it
LostOf(c) ==
    /\ calls[c].phase = "body"
    /\ calls' = [calls EXCEPT ![c].phase = "lost"]
    /\ UNCHANGED <<variant, remote, API_KEY, stdin, read, buf, out, log, bad, parsed, reqs, by, status>>

Lost ==
    /\ status = "running"
    /\ \E c \in DOMAIN calls : LostOf(c)

Next == Data \/ End \/ Response \/ BodyData \/ BodyEnd \/ RequestError \/ Lost

Spec == Init /\ [][Next]_vars

SpecTool == InitTool /\ [][Next]_vars

SpecFramer == InitFramer /\ [][Next]_vars

\* the events of the HTTP request of call c: its response, a chunk of the
\* body, the end of the body, an error or the 30 s timeout, the close of the
\* connection
HttpEventOf(c) ==
    /\ status = "running"
    /\ c \in DOMAIN calls
    /\ \/ \E code \in remote, location \in Locations : ResponseOf(c, code, location)
       \/ \E chunk \in BodyChunks : BodyDataOf(c, chunk)
       \/ BodyEndOf(c)
       \/ \E e \in TransportErrors : RequestErrorOf(c, e)
       \/ LostOf(c)

\* every request in flight gets its next event: after 30 s without one its
\* timeout fires
SpecLive ==
    /\ InitLive /\ [][Next]_vars
    /\ \A c \in 1..MaxLines : WF_vars(HttpEventOf(c))

----
\* What the history says about a frame.

\* the lines of stdout that answer frame f
Answers(f) == {i \in 1..Len(out) : out[i].src = f}

\* frame f is a message with id != null
IsRequest(f) == log[f].t = "object" /\ NotNullish(log[f].id)

\* frame f is a message with id absent or null
IsNotification(f) == log[f].t = "object" /\ ~NotNullish(log[f].id)

\* nothing is left to read and no call awaits I/O: no line can be written any more
Quiescent == stdin = <<>> /\ calls = <<>>

\* the newline-terminated lines read so far
LinesRead == LET ls == split(read) IN SubSeq(ls, 1, Len(ls) - 1)

\* line l is not blank and is not one JSON text
IsMalformed(l) ==
    /\ \E i \in 1..Len(l) : l[i] # SP
    /\ ~(\E i \in 1..Len(l) : IsJson(l[i]) /\ \A j \in 1..Len(l) : j # i => l[j] = SP)

\* line l is one JSON text with white space around it
IsWellFormed(l) == \E i \in 1..Len(l) : IsJson(l[i]) /\ \A j \in 1..Len(l) : j # i => l[j] = SP

\* the JSON values of the well-formed lines among ls, in order
RECURSIVE ValuesOf(_)
ValuesOf(ls) ==
    IF ls = <<>> THEN <<>>
    ELSE LET l == Head(ls)
         IN (IF IsWellFormed(l) THEN <<CHOOSE v \in {l[i] : i \in 1..Len(l)} : IsJson(v)>> ELSE <<>>)
                \o ValuesOf(Tail(ls))

----
\* C1 as stated: once nothing more can be written, every message with
\* id != null, whatever its method, has exactly one response, carrying its id.
C1_EveryRequestAnsweredOnce ==
    Quiescent =>
        \A f \in 1..Len(log) :
            IsRequest(f) =>
                /\ Cardinality(Answers(f)) = 1
                /\ \A i \in Answers(f) : out[i].id = log[f].id

\* C1, amended: a message with id != null has exactly one response carrying
\* its id, unless its method is initialized or notifications/initialized (none,
\* ever) or it is a tools/call whose HTTP call has not settled (none yet);
\* never two.
C1_RequestAnsweredOnceUnlessInitialized ==
    \A f \in 1..Len(log) :
        IsRequest(f) =>
            /\ Cardinality(Answers(f)) =
                   IF log[f].method \in {"initialized", "notifications/initialized"}
                          \/ f \in DOMAIN calls
                   THEN 0 ELSE 1
            /\ \A i \in Answers(f) : out[i].id = log[f].id

\* a tools/call request was answered after its HTTP call settled, beside an
\* initialized message with an id that got no answer
C1_Witness ==
    \E f, g \in 1..Len(log) :
        /\ IsRequest(f) /\ log[f].method = "tools/call"
        /\ \E i \in 1..Len(reqs) : reqs[i].src = f
        /\ f \notin DOMAIN calls /\ Cardinality(Answers(f)) = 1
        /\ IsRequest(g) /\ log[g].method = "initialized" /\ Answers(g) = {}

\* C2 as stated: a message whose id is absent or null never causes a response.
C2_NotificationNeverAnswered ==
    \A f \in 1..Len(log) : IsNotification(f) => Answers(f) = {}

\* C3: the lines written for parse errors are exactly one
\* {id: null, error: {code: -32700}} per malformed line read; the values
\* dispatched are those of the well-formed lines read, in order, whatever
\* malformed lines lie between them; and a later initialize, ping, tools/list
\* or unknown-method request has its response.
C3_ParseErrorPerFrame ==
    LET malformed == {k \in 1..Len(LinesRead) : IsMalformed(LinesRead[k])}
    IN /\ bad = Cardinality(malformed)
       /\ Cardinality(Answers(0)) = Cardinality(malformed)
       /\ \A i \in Answers(0) :
              /\ out[i].id = JNull
              /\ out[i].result = [kind |-> "absent"]
              /\ out[i].error = [kind |-> "error", code |-> -32700, message |-> "Parse error"]
       /\ \A i \in 1..Len(out) : out[i].error.kind = "error" /\ out[i].error.code = -32700 => out[i].src = 0
       /\ log = ValuesOf(LinesRead)
       /\ \A f \in 1..Len(log) :
              IsRequest(f) /\ log[f].method \in {"initialize", "ping", "tools/list", "notamethod"}
                  => Cardinality(Answers(f)) = 1

\* a malformed line was answered with the parse error, and the ping request of
\* the line after it with its result
C3_Witness ==
    /\ Len(LinesRead) = 2 /\ IsMalformed(LinesRead[1])
    /\ Len(out) = 2 /\ out[1].src = 0 /\ out[2].src = 1
    /\ log[1].t = "object" /\ log[1].method = "ping" /\ out[2].result = [kind |-> "empty"]

\* C4 as stated: handling a frame that parses as JSON never terminates the
\* server.
C4_FrameNeverTerminates == status # "crashed"

----
\* What the history says about a tools/call.

\* frame f is a tools/call whose params is an object
IsToolCall(f) ==
    log[f].t = "object" /\ log[f].method = "tools/call" /\ log[f].params.t = "object"

NameOf(f) == log[f].params.name

\* the arguments of frame f: an object without properties when none is given
ArgsOf(f) ==
    IF log[f].params.arguments.t = "object" THEN log[f].params.arguments
    ELSE [t |-> "object", url |-> Undef, query |-> Undef]

\* the names tools/list returns
Listed == {TOOLS[i].name : i \in 1..Len(TOOLS)}

\* inputSchema.required[0] of the listed tool name
RequiredField(name) == (CHOOSE d \in {TOOLS[i] : i \in 1..Len(TOOLS)} : d.name = name).required[1]

\* the value is a non-empty string or a number other than 0
NonEmpty(v) == (v.t = "string" /\ Len(v.s) > 0) \/ (v.t = "number" /\ v.n # 0)

\* the messages of the error responses to frame f
ErrorsOf(f) == {out[i].error.message : i \in {j \in Answers(f) : out[j].error.kind = "error"}}

\* the HTTP requests issued for frame f, in order
RequestsOf(f) == SelectSeq(reqs, LAMBDA r : r.src = f)

TextResponse(f, id, text) ==
    [src |-> f, id |-> id,
     result |-> [kind |-> "content", content |-> <<[type |-> "text", text |-> text]>>],
     error |-> [kind |-> "absent"]]

ErrorResponse(f, id, code, message) ==
    [src |-> f, id |-> id, result |-> [kind |-> "absent"],
     error |-> [kind |-> "error", code |-> code, message |-> message]]

\* the chunks put together, first to last
RECURSIVE Concatenation(_)
Concatenation(chunks) ==
    IF chunks = <<>> THEN ""
    ELSE Concatenation(SubSeq(chunks, 1, Len(chunks) - 1)) \o chunks[Len(chunks)]

----
\* C5: a tools/call request whose invoker throws E has exactly one response,
\* the error -32603 with E's message; when its HTTP response ends the one line
\* written is the result whose single text block is the body, the chunks
\* received put together; when its request fails with E the one line written
\* is the error -32603 with E's message.
C5_ToolCallResponse ==
    /\ [](\A f \in 1..Len(log) :
            IsToolCall(f) /\ IsRequest(f) =>
                /\ Cardinality(Answers(f)) <= 1
                /\ LET r == callTool(NameOf(f), ArgsOf(f))
                   IN r.t = "throw" =>
                          \E i \in 1..Len(out) :
                              /\ Answers(f) = {i}
                              /\ out[i] = ErrorResponse(f, log[f].id, -32603, r.message))
    /\ [][\A c \in DOMAIN calls :
            NotNullish(calls[c].id) =>
                /\ BodyEndOf(c) =>
                       out' = Append(out, TextResponse(c, calls[c].id, Concatenation(calls[c].chunks)))
                /\ \A e \in TransportErrors :
                       RequestErrorOf(c, e) =>
                           out' = Append(out, ErrorResponse(c, calls[c].id, -32603, e))]_vars

\* a tools/call request was answered with a body received in two chunks
C5_Witness ==
    \E f \in 1..Len(log), i \in 1..Len(out) :
        /\ IsToolCall(f) /\ IsRequest(f)
        /\ out[i] = TextResponse(f, log[f].id, "# Mocked scrape")

\* C6 as stated: with no credential, every tools/call request, whatever its
\* params, is answered with an error naming DESHELL_API_KEY, and no HTTP
\* request is issued.
C6_CredentialErrorForEveryCall ==
    API_KEY = "" =>
        /\ reqs = <<>>
        /\ \A f \in 1..Len(log) :
               log[f].t = "object" /\ log[f].method = "tools/call" /\ IsRequest(f) =>
                   \E i \in 1..Len(out) :
                       /\ Answers(f) = {i}
                       /\ out[i].error.kind = "error"
                       /\ out[i].error.message = "DESHELL_API_KEY environment variable is required"

\* C7 as stated: with a credential, a listed tool called with its required
\* field present, whatever its value, raises neither the unknown-tool error
\* nor "<field> is required".
C7_RequiredFieldPresent ==
    API_KEY # "" =>
        \A f \in 1..Len(log) :
            IsToolCall(f) /\ NameOf(f) \in Listed
                /\ ArgsOf(f)[RequiredField(NameOf(f))].t # "undefined" =>
                LET r == callTool(NameOf(f), ArgsOf(f))
                    raised == {"Unknown tool: " \o NameOf(f), RequiredField(NameOf(f)) \o " is required"}
                IN /\ ~(r.t = "throw" /\ r.message \in raised)
                   /\ ErrorsOf(f) \cap raised = {}

\* C7, amended: with a credential, a listed tool called with its required field
\* holding a non-empty string or a non-zero number raises neither the
\* unknown-tool error nor "<field> is required".
C7_RequiredFieldNonEmpty ==
    API_KEY # "" =>
        \A f \in 1..Len(log) :
            IsToolCall(f) /\ NameOf(f) \in Listed
                /\ NonEmpty(ArgsOf(f)[RequiredField(NameOf(f))]) =>
                LET r == callTool(NameOf(f), ArgsOf(f))
                    raised == {"Unknown tool: " \o NameOf(f), RequiredField(NameOf(f)) \o " is required"}
                IN /\ ~(r.t = "throw" /\ r.message \in raised)
                   /\ ErrorsOf(f) \cap raised = {}

\* the six-tool variant issued the request of deshell_nocache called with a url
C7_Witness ==
    /\ variant = "six" /\ API_KEY # ""
    /\ \E f \in 1..Len(log) :
           /\ IsToolCall(f) /\ NameOf(f) = "deshell_nocache" /\ NonEmpty(ArgsOf(f).url)
           /\ Len(RequestsOf(f)) = 1

\* C8: with a credential, callTool fails with "Unknown tool: <name>" exactly
\* when name is not the name of a descriptor in TOOLS, in both variants; a
\* request is answered with that error exactly then.
C8_ListedIffAccepted ==
    API_KEY # "" =>
        \A f \in 1..Len(log) :
            IsToolCall(f) =>
                LET r == callTool(NameOf(f), ArgsOf(f))
                    unknown == "Unknown tool: " \o NameOf(f)
                IN /\ (r.t = "throw" /\ r.message = unknown) <=> NameOf(f) \notin Listed
                   /\ IsRequest(f) => (unknown \in ErrorsOf(f) <=> NameOf(f) \notin Listed)

\* the two-tool variant answered a call of deshell_raw with the unknown-tool
\* error
C8_Witness ==
    /\ variant = "two" /\ API_KEY # ""
    /\ \E f \in 1..Len(log) :
           /\ IsToolCall(f) /\ IsRequest(f) /\ NameOf(f) = "deshell_raw"
           /\ ErrorsOf(f) = {"Unknown tool: deshell_raw"}

\* C9: with a credential, a tools/call request for a listed tool whose required
\* field is absent from arguments, arguments omitted or null included, has
\* exactly one response, the error -32603 "<field> is required", and no HTTP
\* request is issued for it.
C9_RequiredFieldAbsent ==
    API_KEY # "" =>
        \A f \in 1..Len(log) :
            IsToolCall(f) /\ IsRequest(f) /\ NameOf(f) \in Listed
                /\ (log[f].params.arguments.t # "object"
                        \/ log[f].params.arguments[RequiredField(NameOf(f))].t = "undefined") =>
                /\ \E i \in 1..Len(out) :
                       /\ Answers(f) = {i}
                       /\ out[i] = ErrorResponse(f, log[f].id, -32603,
                                                 RequiredField(NameOf(f)) \o " is required")
                /\ RequestsOf(f) = <<>>

\* deshell_search called without arguments was answered "query is required"
C9_Witness ==
    /\ API_KEY # ""
    /\ \E f \in 1..Len(log) :
           /\ IsToolCall(f) /\ IsRequest(f) /\ NameOf(f) = "deshell_search"
           /\ log[f].params.arguments.t = "undefined"
           /\ ErrorsOf(f) = {"query is required"}
           /\ RequestsOf(f) = <<>>

----
\* What C10 expects of a request.

\* the path segment before the url, by tool
Segment(name) ==
    CASE name = "deshell_scrape" -> "/"
      [] name = "deshell_screenshot" -> "/screenshot/"
      [] name = "deshell_render" -> "/render/"
      [] name = "deshell_raw" -> "/raw/"
      [] name = "deshell_nocache" -> "/nocache/"

\* the text of an argument, character by character as it was given
AsGiven(v) ==
    IF v.t = "number" THEN DigitStr(v.n) ELSE Concatenation(v.s)

\* the text of an argument with each character outside the unreserved set
\* replaced by its %XX
PercentEncoded(v) ==
    IF v.t = "number" THEN DigitStr(v.n)
    ELSE Concatenation([i \in 1..Len(v.s) |->
             CASE v.s[i] = " " -> "%20" [] v.s[i] = "%" -> "%25"
               [] v.s[i] = "/" -> "%2F" [] OTHER -> v.s[i]])

ExpectedRequest(f) ==
    IF NameOf(f) = "deshell_search"
    THEN [src |-> f,
          url |-> "https://proxy.deshell.ai" \o "/search?q=" \o PercentEncoded(ArgsOf(f).query),
          headers |-> {<<"X-DeShell-Key", API_KEY>>, <<"Accept", "text/markdown">>}]
    ELSE [src |-> f,
          url |-> "https://proxy.deshell.ai" \o Segment(NameOf(f)) \o AsGiven(ArgsOf(f).url),
          headers |-> {<<"X-DeShell-Key", API_KEY>>}]

\* the first request issued for frame f is the expected one, and every later
\* one follows a redirect
OneInitialRequest(f) ==
    LET rs == RequestsOf(f)
    IN /\ Len(rs) >= 1
       /\ rs[1] = ExpectedRequest(f)
       /\ \A k \in 2..Len(rs) : rs[k].url \in Locations

\* the invocation of frame f passes callTool's checks: a credential, a listed
\* tool, its required field non-empty
IsValidCall(f) ==
    /\ API_KEY # ""
    /\ IsToolCall(f) /\ NameOf(f) \in Listed
    /\ NonEmpty(ArgsOf(f)[RequiredField(NameOf(f))])

HasLoneSurrogate(v) == v.t = "string" /\ \E i \in 1..Len(v.s) : v.s[i] = LoneSurrogate

\* C10 as stated: every valid tool invocation issues exactly one initial GET,
\* with the URL and the headers of its tool.
C10_ValidCallIssuesRequest ==
    \A f \in 1..Len(log) : IsValidCall(f) => OneInitialRequest(f)

\* C10, amended: a valid tool invocation issues exactly one initial GET with
\* the URL and the headers of its tool, unless it is a search whose query holds
\* a lone surrogate: encodeURIComponent throws on it and no GET is issued.
C10_EncodableCallIssuesRequest ==
    \A f \in 1..Len(log) :
        IsValidCall(f) =>
            IF NameOf(f) = "deshell_search" /\ HasLoneSurrogate(ArgsOf(f).query)
            THEN RequestsOf(f) = <<>>
            ELSE OneInitialRequest(f)

\* a search for "a " issued its GET with q=a%20 and the Accept header
C10_Witness ==
    \E f \in 1..Len(log) :
        /\ IsValidCall(f) /\ NameOf(f) = "deshell_search"
        /\ ArgsOf(f).query = JStr(<<"a", " ">>)
        /\ RequestsOf(f) = <<[src |-> f, url |-> "https://proxy.deshell.ai/search?q=a%20",
                              headers |-> {<<"X-DeShell-Key", "dk_test">>, <<"Accept", "text/markdown">>}]>>

----
\* What the history says about methods the server does not know.

KnownMethods == {"initialize", "initialized", "notifications/initialized", "ping", "tools/list", "tools/call"}

\* frame f is a message, or another JSON value that is not null, whose method
\* is none of the known ones (a value without a method reads as "undefined")
IsUnknownMethod(f) == log[f].t # "null" /\ destructure(log[f]).method \notin KnownMethods

\* C11: a message with an unknown method and id != null has exactly one
\* response: the error -32601 with its id and the message "Method not found: "
\* followed by the method name; with id absent or null it has no response.
C11_UnknownMethod ==
    \A f \in 1..Len(log) :
        IsUnknownMethod(f) =>
            LET id == destructure(log[f]).id
            IN IF NotNullish(id)
               THEN \E i \in 1..Len(out) :
                        /\ Answers(f) = {i}
                        /\ out[i] = ErrorResponse(f, id, -32601,
                                        "Method not found: " \o destructure(log[f]).method)
               ELSE Answers(f) = {}

\* notamethod with id 1 was answered -32601 "Method not found: notamethod",
\* and notamethod with id null was not answered
C11_Witness ==
    /\ Len(log) = 2
    /\ log[1] = Message(JNum(1), "notamethod", NoParams)
    /\ log[2] = Message(JNull, "notamethod", NoParams)
    /\ out = <<ErrorResponse(1, JNum(1), -32601, "Method not found: notamethod")>>

\* C12: initialized and notifications/initialized never cause a response, with
\* or without an id; when the frames read are one of them and then a ping
\* request, and no malformed line, the output is the one response to the ping.
C12_InitializedNeverAnswered ==
    /\ \A f \in 1..Len(log) :
           log[f].t = "object" /\ log[f].method \in {"initialized", "notifications/initialized"}
               => Answers(f) = {}
    /\ Len(log) = 2 /\ bad = 0 /\ log[1].t = "object" /\ log[2].t = "object"
           /\ log[1].method \in {"initialized", "notifications/initialized"}
           /\ log[2].method = "ping" /\ NotNullish(log[2].id)
           => out = <<[src |-> 2, id |-> log[2].id, result |-> [kind |-> "empty"],
                       error |-> [kind |-> "absent"]]>>

\* an initialized without id and then a ping with id 1 were read, and the one
\* line written answers the ping
C12_Witness ==
    /\ Len(log) = 2
    /\ log[1] = Message(Undef, "initialized", NoParams)
    /\ log[2] = Message(JNum(1), "ping", NoParams)
    /\ Len(out) = 1 /\ out[1].src = 2 /\ out[1].id = JNum(1)

----
\* C13: a running process that has read all its input can exit at once,
\* whatever buf holds and whatever calls are in flight; the step that exits
\* writes nothing, dispatches nothing and issues nothing; after the exit
\* nothing changes any more, so the calls in flight stay unanswered; and at the
\* exit the values dispatched are those of the newline-terminated lines only,
\* with one parse error per malformed one of them: the text left in buf was
\* neither dispatched nor reported.
C13_EndExits ==
    /\ [](status = "running" /\ stdin = <<>> => ENABLED End)
    /\ [](status = "exited" =>
            /\ stdin = <<>>
            /\ log = ValuesOf(LinesRead)
            /\ Cardinality(Answers(0)) =
                   Cardinality({k \in 1..Len(LinesRead) : IsMalformed(LinesRead[k])})
            /\ \A c \in DOMAIN calls : Answers(c) = {})
    /\ [][status # "exited" /\ status' = "exited" =>
              /\ out' = out /\ log' = log /\ bad' = bad
              /\ reqs' = reqs /\ calls' = calls /\ buf' = buf]_vars
    /\ [][status = "exited" => UNCHANGED vars]_vars

\* the process exited with an unterminated ping left in buf and a call in
\* flight, having written nothing
C13_Witness ==
    /\ status = "exited"
    /\ buf = <<Message(JNum(1), "ping", NoParams)>>
    /\ calls # <<>>
    /\ out = <<>>

----
\* C14: every line written for an initialize message is a result with
\* protocolVersion "2024-11-05", capabilities holding tools and the server's
\* name, the same whatever was dispatched before it; a request has that line.
C14_InitializeResult ==
    \A f \in 1..Len(log) :
        log[f].t = "object" /\ log[f].method = "initialize" =>
            /\ \A i \in Answers(f) :
                   /\ out[i].error = [kind |-> "absent"]
                   /\ out[i].result.protocolVersion = "2024-11-05"
                   /\ "tools" \in out[i].result.capabilities
                   /\ out[i].result.serverInfo.name = "@deshell/mcp"
                   /\ \A g \in 1..Len(log) :
                          log[g].t = "object" /\ log[g].method = "initialize"
                              => \A j \in Answers(g) : out[j].result = out[i].result
            /\ IsRequest(f) => Cardinality(Answers(f)) = 1

\* initialize was sent twice, the second time after the first was answered,
\* and both were answered
C14_Witness ==
    /\ Len(log) = 2 /\ Len(out) = 2
    /\ log[1] = Message(JNum(1), "initialize", NoParams)
    /\ log[2] = Message(JNum(1), "initialize", NoParams)
    /\ out[1].src = 1 /\ out[2].src = 2
    /\ out[2].result.protocolVersion = "2024-11-05"

----
\* What tools/list is to return: the names of the registry, in its order.

RegistryNames ==
    IF variant = "six"
    THEN <<"deshell_scrape", "deshell_search", "deshell_screenshot", "deshell_render",
           "deshell_raw", "deshell_nocache">>
    ELSE <<"deshell_scrape", "deshell_search">>

\* C15: every line written for a tools/list message is a result whose tools
\* are the whole registry in its fixed order, each with its required field,
\* whatever was dispatched before it (no initialize, a tool call in flight or
\* failed, a parse error); a request has that line.
C15_ToolsListFixed ==
    \A f \in 1..Len(log) :
        log[f].t = "object" /\ log[f].method = "tools/list" =>
            /\ \A i \in Answers(f) :
                   /\ out[i].error = [kind |-> "absent"]
                   /\ [k \in 1..Len(out[i].result.tools) |-> out[i].result.tools[k].name] = RegistryNames
                   /\ \A k \in 1..Len(out[i].result.tools) :
                          out[i].result.tools[k].required =
                              <<IF out[i].result.tools[k].name = "deshell_search" THEN "query" ELSE "url">>
            /\ IsRequest(f) => Cardinality(Answers(f)) = 1

\* tools/list was answered with the registry after a tool call had issued its
\* HTTP request, with no initialize before it
C15_Witness ==
    /\ Len(log) = 2
    /\ log[1].t = "object" /\ log[1].method = "tools/call" /\ Len(RequestsOf(1)) = 1
    /\ log[2] = Message(JNum(1), "tools/list", NoParams)
    /\ \E i \in Answers(2) : Len(out[i].result.tools) = Len(RegistryNames)

----
\* The lines of a text, told from the positions of its newlines.

NewlinesIn(text) == {i \in 1..Len(text) : text[i] = NL}

\* the position of the k-th newline of the text
KthNewline(text, k) ==
    CHOOSE i \in NewlinesIn(text) : Cardinality({j \in NewlinesIn(text) : j < i}) = k - 1

\* the position of the last newline before position i, 0 when there is none
NewlineBefore(text, i) ==
    LET before == {j \in NewlinesIn(text) : j < i}
    IN IF before = {} THEN 0 ELSE CHOOSE j \in before : \A k \in before : k <= j

\* the newline-terminated lines of the text, in order
TerminatedLines(text) ==
    [k \in 1..Cardinality(NewlinesIn(text)) |->
        SubSeq(text, NewlineBefore(text, KthNewline(text, k)) + 1, KthNewline(text, k) - 1)]

\* the text after the last newline
AfterLastNewline(text) == SubSeq(text, NewlineBefore(text, Len(text) + 1) + 1, Len(text))

IsBlank(l) == \A i \in 1..Len(l) : l[i] = SP

----
\* C16: however the text read so far was cut into data events, the lines
\* handed to JSON.parse are the non-blank newline-terminated lines of that
\* text, in order and each once, and buf is the text after its last newline,
\* with no newline in it.
C16_ChunkIndependentFraming ==
    /\ parsed = SelectSeq(TerminatedLines(read), LAMBDA l : ~IsBlank(l))
    /\ buf = AfterLastNewline(read)
    /\ \A i \in 1..Len(buf) : buf[i] # NL

\* a line of three characters, longer with its newline than a chunk can be so
\* that it was read in two data events at least, was handed to JSON.parse once,
\* after a blank line that was dropped, and an unterminated ping is in buf
C16_Witness ==
    /\ read = <<SP, NL, SP, Message(JNum(1), "ping", NoParams), SP, NL, Message(JNum(1), "ping", NoParams)>>
    /\ parsed = <<<<SP, Message(JNum(1), "ping", NoParams), SP>>>>
    /\ buf = <<Message(JNum(1), "ping", NoParams)>>
    /\ Len(out) = 1

----
\* C17: a data event handled while calls await I/O dispatches every
\* well-formed line it completes, writes the response of
\* each initialize, ping, tools/list and unknown-method request among them
\* before it returns, and starts the HTTP request of each valid tools/call
\* among them beside the calls already pending; and an HTTP event of one call
\* changes no other pending call and writes a line for that call only, its
\* own body or its own error.
C17_LoopNeverWaits ==
    /\ [][read' # read /\ calls # <<>> =>
              /\ log' = ValuesOf(TerminatedLines(read'))
              /\ DOMAIN calls \subseteq DOMAIN calls'
              /\ \A f \in (Len(log) + 1)..Len(log') :
                     log'[f].t = "object" =>
                         /\ NotNullish(log'[f].id)
                                /\ log'[f].method \in {"initialize", "ping", "tools/list", "notamethod"}
                                => \E i \in (Len(out) + 1)..Len(out') : out'[i].src = f
                         /\ log'[f].method = "tools/call" /\ log'[f].params.t = "object"
                                /\ callTool(log'[f].params.name,
                                            IF log'[f].params.arguments.t = "object"
                                            THEN log'[f].params.arguments
                                            ELSE [t |-> "object", url |-> Undef, query |-> Undef]).t = "get"
                                => f \in DOMAIN calls']_vars
    /\ [][read' = read /\ out' # out =>
              \E c \in DOMAIN calls :
                  /\ c \notin DOMAIN calls'
                  /\ \A d \in DOMAIN calls \ {c} : d \in DOMAIN calls' /\ calls'[d] = calls[d]
                  /\ \/ out' = Append(out, TextResponse(c, calls[c].id, Concatenation(calls[c].chunks)))
                     \/ \E e \in TransportErrors \cup {"Invalid URL"} :
                            out' = Append(out, ErrorResponse(c, calls[c].id, -32603, e))]_vars
    /\ [][read' = read =>
              Cardinality({d \in DOMAIN calls : d \notin DOMAIN calls' \/ calls'[d] # calls[d]}) <= 1]_vars

\* two tools/call requests were pending together, and the later one was
\* answered first, each with the body its own response carried
C17_Witness ==
    /\ Len(log) = 2
    /\ IsToolCall(1) /\ IsToolCall(2)
    /\ out = << TextResponse(2, log[2].id, "# Mocked"), TextResponse(1, log[1].id, " scrape") >>

----
\* C18 as stated: the response to a request is written before the response
\* to a request that arrived earlier only if the earlier one is a tools/call
\* that issued an HTTP request; every other request is answered in arrival
\* order.
C18_ResponsesInArrivalOrder ==
    \A i, j \in 1..Len(out) :
        /\ i < j /\ out[j].src > 0 /\ out[i].src > out[j].src
        /\ IsRequest(out[i].src) /\ IsRequest(out[j].src)
        => RequestsOf(out[j].src) # <<>>

----
\* C19 as stated, for a remote server that never closes a connection in
\* mid-body: every call awaiting I/O eventually settles, whatever statuses and
\* Locations the server answers, unless the process ends first.
C19_EveryCallSettles ==
    \A c \in 1..MaxLines :
        [](c \in DOMAIN calls =>
               <>(c \notin DOMAIN calls \/ status # "running" \/ calls[c].phase = "lost"))

----
\* C20 as stated: each request after the first of a chain goes to a Location
\* value with the headers of the first, and a call that settled was settled by
\* the last request of its chain: by its body, by its error, or by the
\* Location no request could be made to.
C20_SettlesWithLastRequest ==
    /\ \A f \in 1..Len(log) :
           LET rs == RequestsOf(f)
           IN \A k \in 2..Len(rs) : rs[k].headers = rs[1].headers /\ rs[k].url \in Locations
    /\ \A c \in DOMAIN by : by[c].from = "last"

----
\* C21: when a request of a call fails with error E (a connection error, or
\* "Request timed out"), before its response or in the middle of its body, the
\* call is over and the one line written, when the call has an id, is the error
\* -32603 with E as its message; a call answered with such an error has no
\* other answer, so no result with the part of the body that had come.
C21_TransportFailureRejects ==
    /\ [][\A c \in DOMAIN calls, e \in TransportErrors :
              RequestErrorOf(c, e) =>
                  /\ c \notin DOMAIN calls'
                  /\ out' = IF NotNullish(calls[c].id)
                            THEN Append(out, ErrorResponse(c, calls[c].id, -32603, e))
                            ELSE out]_vars
    /\ [](\A f \in 1..Len(log) : \A i \in Answers(f) :
              out[i].error.kind = "error" /\ out[i].error.message \in TransportErrors =>
                  /\ Answers(f) = {i}
                  /\ out[i].error.code = -32603
                  /\ out[i].result = [kind |-> "absent"]
                  /\ f \notin DOMAIN calls)

\* a tools/call request whose HTTP request timed out after its 200 response
\* had begun was answered -32603 "Request timed out"
C21_Witness ==
    /\ Len(log) = 1 /\ IsToolCall(1) /\ Len(RequestsOf(1)) = 1
    /\ by = (1 :> [from |-> "last", how |-> "error", code |-> 200])
    /\ out = <<ErrorResponse(1, JNum(1), -32603, "Request timed out")>>

----
\* C22: a call awaiting its response, in the middle of its body, or whose
\* connection closed in mid-body has no answer; the chunks kept for it only
\* grow at the end, one per 'data'; a content result is written for a call
\* only by the step that ends its body, it is the chunks received put
\* together first to last, the call is over with that step, and it is the
\* call's one answer; a call whose connection closed in mid-body stays as it
\* is until a request that a redirect had answered fails.
C22_BodyAccumulated ==
    /\ [](\A c \in DOMAIN calls : Answers(c) = {})
    /\ [](\A f \in 1..Len(log) : \A i \in Answers(f) :
              out[i].result.kind = "content" =>
                  Answers(f) = {i} /\ f \in DOMAIN by /\ by[f].how = "end")
    /\ [][\A c \in DOMAIN calls :
              /\ c \in DOMAIN calls' =>
                     LET old == calls[c].chunks
                         new == calls'[c].chunks
                     IN \/ new = old
                        \/ Len(new) = Len(old) + 1 /\ SubSeq(new, 1, Len(old)) = old
                               /\ calls[c].phase = "body"
              /\ LET n == Len(out')
                 IN n > Len(out) /\ out'[n].src = c /\ out'[n].result.kind = "content" =>
                        /\ calls[c].phase = "body"
                        /\ out'[n] = TextResponse(c, calls[c].id, Concatenation(calls[c].chunks))
                        /\ c \notin DOMAIN calls'
              /\ calls[c].phase = "lost" =>
                     IF c \in DOMAIN calls' THEN calls'[c] = calls[c]
                     ELSE by'[c].how = "error" /\ by'[c].from = "earlier"]_vars

\* the connection of a tools/call request closed after two chunks of the body,
\* and the request has no answer
C22_Witness ==
    /\ Len(log) = 1 /\ IsToolCall(1) /\ IsRequest(1)
    /\ 1 \in DOMAIN calls
    /\ calls[1].phase = "lost" /\ calls[1].chunks = <<"# Mocked", " scrape">>
    /\ out = <<>>

----
\* the statuses get does not follow
Unfollowed == StatusCodes \ {301, 302}

\* C23: a response with a status other than 301 and 302 (404, 500 and 307
\* among them), whatever its Location, starts the collecting of the body and
\* does nothing else: nothing is written and no request is issued; a call
\* settled by the end of a body had such a status, and when it has an id its
\* one answer is a result with the body as content and no error; a call is
\* answered with an error only when a request of it failed or a 301 or 302
\* named a Location no request can be made to.
C23_StatusNotInspected ==
    /\ [][\A c \in DOMAIN calls, code \in Unfollowed, location \in Locations :
              ResponseOf(c, code, location) =>
                  /\ calls' = [calls EXCEPT ![c].phase = "body", ![c].code = code]
                  /\ out' = out
                  /\ reqs' = reqs]_vars
    /\ [](\A c \in DOMAIN by :
              /\ by[c].how = "end" =>
                     /\ by[c].code \in Unfollowed
                     /\ NotNullish(log[c].id) =>
                            \E i \in 1..Len(out) :
                                /\ Answers(c) = {i}
                                /\ out[i].result.kind = "content"
                                /\ out[i].error = [kind |-> "absent"]
              /\ (\E i \in Answers(c) : out[i].error.kind = "error") =>
                     \/ by[c].how = "error"
                     \/ by[c].how = "location" /\ by[c].code \in {301, 302})

\* a tools/call request whose response had status 404 was answered with a
\* result holding the body of that response
C23_Witness ==
    /\ Len(log) = 1 /\ IsToolCall(1)
    /\ by = (1 :> [from |-> "last", how |-> "end", code |-> 404])
    /\ out = <<TextResponse(1, JNum(1), "# Mocked")>>

====
